---- MODULE Spec2Model ----
(***************************************************************************)
(* The plugin manager of packages/core/server (plugin-manager.ts): the     *)
(* record store, the instance registry, the package files, the lifecycle   *)
(* calls as sequences of awaited steps, and the control socket.            *)
(*                                                                         *)
(* An async method is a call record in a slot of `calls`.  The action that *)
(* starts it runs its synchronous prefix (up to the first await); every    *)
(* later action of the call is the completion of one awaited operation     *)
(* together with the synchronous code that follows it.                     *)
(*                                                                         *)
(* The manager is constructed on the table a previous run has left, with   *)
(* or without static plugins (options.plugins).                            *)
(***************************************************************************)
EXTENDS Naturals, Sequences, FiniteSets

VARIABLES
  store,        \* rows of the applicationPlugins table of this application
  tableExists,  \* the applicationPlugins table exists in the database
  plugins,      \* this.plugins: the Map, as the sequence of its entries in insertion order
  files,        \* names whose installed package files are on disk
  moduleCache,  \* names whose module this process has loaded with require
  localPkgs,    \* names with a directory under getPluginPackagesPath()
  calls,        \* the async calls of the manager, one per slot
  listening,    \* this.server is listening on pmSock
  conn,         \* the latest connection made to pmSock
  nreq,         \* requests made so far
  req,          \* the latest request made of the manager
  hist          \* history: what the hooks and the bootstrap have done so far

vars == <<store, tableExists, plugins, files, moduleCache, localPkgs, calls, listening, conn, nreq, req, hist>>

-----------------------------------------------------------------------------
(* Bounds *)

MaxInFlight == 2
MaxRequests == 3
MaxWire == 2

Slots == 1..MaxInFlight

-----------------------------------------------------------------------------
(* Inputs: the plugin packages the calls are made with *)

Names == {"a", "b", "c"}

\* plugin.requiredPlugins() of the class each package exports
requiredPlugins(n) ==
  CASE n = "b" -> <<"a">>
    [] n = "c" -> <<"b", "a">>
    [] OTHER -> <<>>

\* the builtIn flag the add request of each package carries
builtInOf(n) == n = "c"

\* the packages whose class has hooks that can throw
hooksMayThrow(n) == n = "b"

\* the packages whose main module exports a class
exportsClass(n) == n \in Names

\* require(name): the module is found when this process has loaded it before
\* (require.cache) or when the package files of that name are on disk
requireOk(fs, mc, n) == n \in mc \/ n \in fs

\* versions: the version field of a record, undefined included
Versions == {"undefined", "v1", "v2"}
LocalVersion == "v1"
NpmLatest == "v2"

-----------------------------------------------------------------------------
(* Plugin record store (PluginManagerRepository over applicationPlugins) *)

Record(n, en, inst, bi, v) ==
  [name |-> n, enabled |-> en, installed |-> inst, builtIn |-> bi, version |-> v]

Find(st, n) == {r \in st : r.name = n}

\* repository.create: the (name, appName) unique constraint rejects a duplicate
CanCreate(st, n) == Find(st, n) = {}

RepoCreate(st, r) == st \cup {r}

\* repository.update({filter: {name}, values: {enabled}})
RepoSetEnabled(st, n, v) ==
  {IF r.name = n THEN [r EXCEPT !.enabled = v] ELSE r : r \in st}

\* repository.update({filter: {name, builtIn: false}, values: {enabled}})
RepoSetEnabledNotBuiltIn(st, n, v) ==
  {IF r.name = n /\ ~r.builtIn THEN [r EXCEPT !.enabled = v] ELSE r : r \in st}

\* an update of the version that leaves installed as it was
RepoSetInstalledVersionOnly(st, n, v) ==
  {IF r.name = n THEN [r EXCEPT !.version = v] ELSE r : r \in st}

\* repository.update({filter: {name}, values: {version, clientUrl, installed: true}})
RepoSetInstalled(st, n, v) ==
  {IF r.name = n THEN [r EXCEPT !.installed = TRUE, !.version = v] ELSE r : r \in st}

\* repository.update({filter: {name}, values: {version}})
RepoSetVersion(st, n, v) ==
  {IF r.name = n THEN [r EXCEPT !.version = v] ELSE r : r \in st}

\* repository.destroy({filter: {name, builtIn: false}})
RepoDestroy(st, n) == {r \in st : ~(r.name = n /\ ~r.builtIn)}

-----------------------------------------------------------------------------
(* Plugin instance registry (this.plugins) *)

Instance(n, en, bi) == [name |-> n, enabled |-> en, builtIn |-> bi]

RECURSIVE IndexOf(_, _, _)
IndexOf(reg, n, i) ==
  IF i > Len(reg) THEN 0
  ELSE IF reg[i].name = n THEN i
  ELSE IndexOf(reg, n, i + 1)

\* this.plugins.has(name)
Has(reg, n) == IndexOf(reg, n, 1) # 0

\* this.plugins.get(name)
Get(reg, n) == reg[IndexOf(reg, n, 1)]

\* the enabled option the instance was constructed with
PluginEnabled(inst) == inst.enabled

\* a setPluginInstance that starts a new Map with the instance it constructs
setPluginInstanceAlone(reg, n, en, bi) == <<Instance(n, en, bi)>>

\* setPluginInstance: construct with {name, enabled, builtIn}; Map.set keeps
\* the position of an existing key and appends a new one
setPluginInstance(reg, n, en, bi) ==
  IF Has(reg, n)
    THEN [reg EXCEPT ![IndexOf(reg, n, 1)] = Instance(n, en, bi)]
    ELSE Append(reg, Instance(n, en, bi))

\* a delete that leaves the entry in the Map
MapDeleteNothing(reg, n) == reg

\* this.plugins.delete(name)
MapDelete(reg, n) ==
  LET RECURSIVE Del(_)
      Del(i) == IF i > Len(reg) THEN <<>>
                ELSE IF reg[i].name = n THEN Del(i + 1)
                ELSE <<reg[i]>> \o Del(i + 1)
  IN Del(1)

-----------------------------------------------------------------------------
(* Calls *)

NoData == [enabled |-> FALSE, builtIn |-> FALSE, version |-> "undefined"]
NoArg == [method |-> "", reload |-> FALSE]

\* op: the method; name: the plugin it is on; pc: the await it is suspended at;
\* res: "running", "ok" or the error it threw; via: who called it; trace: the
\* hooks, events, store, registry and package operations it has completed;
\* i: the position of its iteration; d: the instance or pluginData it holds;
\* arg: the options of the beforeLoad event; list: the rows it has read;
\* dispatch: the number, on its connection, of the message that started it
Idle ==
  [op |-> "idle", name |-> "", pc |-> "done", res |-> "idle", via |-> "",
   trace |-> <<>>, i |-> 0, d |-> NoData, arg |-> NoArg, list |-> <<>>, dispatch |-> 0]

\* a call that has run its synchronous prefix and waits on its first await
Pending(op, n, via, pc) ==
  [op |-> op, name |-> n, pc |-> pc, res |-> "running", via |-> via,
   trace |-> <<>>, i |-> 0, d |-> NoData, arg |-> NoArg, list |-> <<>>, dispatch |-> 0]

\* a call that threw in its synchronous prefix
Thrown(op, n, via, err) ==
  [op |-> op, name |-> n, pc |-> "done", res |-> err, via |-> via,
   trace |-> <<>>, i |-> 0, d |-> NoData, arg |-> NoArg, list |-> <<>>, dispatch |-> 0]

Running(c) == c.res = "running"
Quiet == \A s \in Slots : ~Running(calls[s])

Ev(c, e, n) == [c EXCEPT !.trace = Append(@, <<e, n>>)]
Goto(c, pc) == [c EXCEPT !.pc = pc]
Settle(c, r) == [c EXCEPT !.pc = "done", !.res = r]

\* the calls of one request take the slots in order
Place(cs) == [s \in Slots |-> IF s <= Len(cs) THEN cs[s] ELSE Idle]

At(s, op, pc) ==
  /\ Running(calls[s])
  /\ calls[s].op = op
  /\ calls[s].pc = pc

Set(s, c) == calls' = [calls EXCEPT ![s] = c]

Adv(c, next) == IF next = "done" THEN Settle(c, "ok") ELSE Goto(c, next)

\* a request is made when no call is running and the request budget is left
RequestOf(r, cs) ==
  /\ Quiet
  /\ nreq < MaxRequests
  /\ nreq' = nreq + 1
  /\ req' = r
  /\ calls' = Place(cs)

\* a control message: plugins is a string or an array of strings
Str(n) == [arr |-> FALSE, str |-> n, list |-> <<>>]
Arr(l) == [arr |-> TRUE, str |-> "", list |-> l]
Msg(method, p) == [method |-> method, plugins |-> p]
NoMsg == Msg("", Str(""))

NoReq == [kind |-> "", name |-> "", msg |-> NoMsg, chunk |-> 0]

\* a call of a method of the manager on plugin n
Request(kind, n, cs) == RequestOf([NoReq EXCEPT !.kind = kind, !.name = n], cs)

\* hook ev of call c was called and threw: the call rejects with its error
Throw(c, ev) == Settle(Ev(Ev(c, ev, c.name), "throw", c.name), "HookError")

\* a hook returns (TRUE) or throws (FALSE)
HookOutcomes(n) == IF hooksMayThrow(n) THEN BOOLEAN ELSE {TRUE}

\* the history after a step that takes call c to c2: installRuns[n] tells
\* whether the install hook of n has never been called, has only thrown, or
\* has completed at least once; disabled holds the names whose disable has
\* succeeded with no enable succeeding since; booted tells that
\* initDatabasePlugins has run to its end; unhandled holds the errors raised
\* with nothing to handle them (a rejected promise nobody awaits, an 'error'
\* event of a socket with no listener) since the process started
HistAfter(h, c, c2) ==
  [installRuns |->
     IF c.pc = "install" /\ c.op \in {"enable", "install"}
       THEN [h.installRuns EXCEPT ![c.name] =
               IF c2.res # "HookError" THEN "completed"
               ELSE IF @ = "never" THEN "threw" ELSE @]
       ELSE h.installRuns,
   disabled |->
     IF c2.op = "disable" /\ c2.res = "ok" THEN h.disabled \cup {c2.name}
     ELSE IF c2.op = "enable" /\ c2.res = "ok" THEN h.disabled \ {c2.name}
     ELSE h.disabled,
   booted |-> h.booted \/ (c2.op = "initDatabasePlugins" /\ c2.res = "ok"),
   unhandled |-> h.unhandled]

\* completion of an awaited plugin hook of call s: it returns or throws
Hook(s, op, pc, ev, next) ==
  /\ At(s, op, pc)
  /\ \E ok \in HookOutcomes(calls[s].name) :
       Set(s, IF ok THEN Adv(Ev(calls[s], ev, calls[s].name), next)
                    ELSE Throw(calls[s], ev))
  /\ UNCHANGED <<store, tableExists, plugins, files, moduleCache, localPkgs, listening, conn, nreq, req>>
  /\ hist' = HistAfter(hist, calls[s], calls'[s])

\* completion of an awaited app.emitAsync of call s
Emit(s, op, pc, ev, next) ==
  /\ At(s, op, pc)
  /\ Set(s, Adv(Ev(calls[s], ev, calls[s].name), next))
  /\ UNCHANGED <<store, tableExists, plugins, files, moduleCache, localPkgs, listening, conn, nreq, req>>
  /\ hist' = HistAfter(hist, calls[s], calls'[s])

Capture(c, inst) ==
  [c EXCEPT !.d = [enabled |-> inst.enabled, builtIn |-> inst.builtIn,
                   version |-> "undefined"]]

-----------------------------------------------------------------------------
(* load(pluginInstance): shared by enable, loadAll and the direct call *)

\* the synchronous prefix of load: a no-op for an instance that is not enabled
loadEnter(c, after) ==
  IF ~PluginEnabled(c.d) THEN after ELSE Goto(c, "beforeLoadPlugin")

RECURSIVE nextEnabled(_, _)
\* the first entry of the Map at or after position i whose instance is enabled
nextEnabled(reg, i) ==
  IF i > Len(reg) THEN 0
  ELSE IF PluginEnabled(reg[i]) THEN i
  ELSE nextEnabled(reg, i + 1)

\* loadAll from entry i on: load returns at once for an instance that is not
\* enabled, so the loop suspends first at the events of the next enabled one
loadAllFrom(c, reg, i) ==
  IF nextEnabled(reg, i) = 0 THEN Settle(c, "ok")
  ELSE Capture([c EXCEPT !.i = nextEnabled(reg, i), !.name = reg[nextEnabled(reg, i)].name,
                         !.pc = "beforeLoadPlugin"],
               reg[nextEnabled(reg, i)])

\* what follows the return of load in call c
afterLoad(c, reg) ==
  IF c.op = "loadAll" THEN loadAllFrom(c, reg, c.i + 1) ELSE Settle(c, "ok")

LoadOps == {"enable", "loadAll", "load"}

LoadBefore(s) ==
  \E op \in LoadOps : Emit(s, op, "beforeLoadPlugin", "emit:beforeLoadPlugin", "load")

\* a load whose throw is swallowed: the pass goes on with the next instance
LoadHookSwallow(s) ==
  /\ \E op \in LoadOps : At(s, op, "load")
  /\ \E ok \in HookOutcomes(calls[s].name) :
       Set(s, Goto(IF ok THEN Ev(calls[s], "load", calls[s].name)
                   ELSE Ev(Ev(calls[s], "load", calls[s].name), "throw", calls[s].name),
                   "afterLoadPlugin"))
  /\ UNCHANGED <<store, tableExists, plugins, files, moduleCache, localPkgs, listening, conn, nreq, req, hist>>

LoadHook(s) ==
  \E op \in LoadOps : Hook(s, op, "load", "load", "afterLoadPlugin")

LoadAfter(s) ==
  /\ \E op \in LoadOps : At(s, op, "afterLoadPlugin")
  /\ Set(s, afterLoad(Ev(calls[s], "emit:afterLoadPlugin", calls[s].name), plugins))
  /\ UNCHANGED <<store, tableExists, plugins, files, moduleCache, localPkgs, listening, conn, nreq, req>>
  /\ hist' = HistAfter(hist, calls[s], calls'[s])

\* await pm.load(instance of n)
loadEnterCall(reg, n, via) ==
  IF ~Has(reg, n) THEN Thrown("load", n, via, "TypeError")
  ELSE LET c == Capture(Pending("load", n, via, "beforeLoadPlugin"), Get(reg, n))
       IN loadEnter(c, Settle(c, "ok"))

LoadStart(n) ==
  /\ Request("load", n, <<loadEnterCall(plugins, n, "api")>>)
  /\ UNCHANGED <<store, tableExists, plugins, files, moduleCache, localPkgs, listening, conn, hist>>

-----------------------------------------------------------------------------
(* loadAll *)

loadAllEnter(reg, via) == loadAllFrom(Pending("loadAll", "", via, "beforeLoadPlugin"), reg, 1)

LoadAllStart ==
  /\ Request("loadAll", "", <<loadAllEnter(plugins, "api")>>)
  /\ UNCHANGED <<store, tableExists, plugins, files, moduleCache, localPkgs, listening, conn, hist>>

-----------------------------------------------------------------------------
(* enable *)

RECURSIVE checkRequired(_, _, _)
\* the loop over requiredPlugins(): "ok", or what the first failing name throws;
\* this.plugins.get of an absent name is undefined and reading its enabled throws
checkRequired(reg, required, k) ==
  IF k > Len(required) THEN "ok"
  ELSE IF ~Has(reg, required[k]) THEN "TypeError"
  ELSE IF ~PluginEnabled(Get(reg, required[k])) THEN "RequiredPluginNotEnabled"
  ELSE checkRequired(reg, required, k + 1)

\* getPluginInstance(name)
getPluginInstance(reg, n) == IF Has(reg, n) THEN "ok" ELSE "PluginNotFound"

enableEnter(reg, n, via) ==
  IF getPluginInstance(reg, n) # "ok" THEN Thrown("enable", n, via, "PluginNotFound")
  ELSE IF checkRequired(reg, requiredPlugins(n), 1) # "ok"
    THEN Thrown("enable", n, via, checkRequired(reg, requiredPlugins(n), 1))
  ELSE Capture(Pending("enable", n, via, "update"), Get(reg, n))

EnableStart(n) ==
  /\ Request("enable", n, <<enableEnter(plugins, n, "api")>>)
  /\ UNCHANGED <<store, tableExists, plugins, files, moduleCache, localPkgs, listening, conn, hist>>

\* a repository call on a missing table throws
DbStep(s, st, c) ==
  IF tableExists
    THEN store' = st /\ Set(s, c)
    ELSE store' = store /\ Set(s, Settle(calls[s], "StoreError"))

\* an enable that goes from the update of the record to afterEnable, without install
EnableUpdateSkipInstall(s) ==
  /\ At(s, "enable", "update")
  /\ DbStep(s, RepoSetEnabled(store, calls[s].name, TRUE),
            Goto(Ev(calls[s], "db:update", calls[s].name), "afterEnable"))
  /\ UNCHANGED <<tableExists, plugins, files, moduleCache, localPkgs, listening, conn, nreq, req, hist>>

EnableUpdate(s) ==
  /\ At(s, "enable", "update")
  /\ DbStep(s, RepoSetEnabled(store, calls[s].name, TRUE),
            Goto(Ev(calls[s], "db:update", calls[s].name), "install"))
  /\ UNCHANGED <<tableExists, plugins, files, moduleCache, localPkgs, listening, conn, nreq, req, hist>>

\* an enable that sets the record back to enabled = false when install throws
EnableInstallRollback(s) ==
  /\ At(s, "enable", "install")
  /\ \E ok \in HookOutcomes(calls[s].name) :
       IF ok
         THEN /\ Set(s, Goto(Ev(calls[s], "install", calls[s].name), "afterEnable"))
              /\ store' = store
         ELSE /\ Set(s, Throw(calls[s], "install"))
              /\ store' = RepoSetEnabled(store, calls[s].name, FALSE)
  /\ hist' = HistAfter(hist, calls[s], calls'[s])
  /\ UNCHANGED <<tableExists, plugins, files, moduleCache, localPkgs, listening, conn, nreq, req>>

EnableInstall(s) == Hook(s, "enable", "install", "install", "afterEnable")

EnableAfterEnable(s) == Hook(s, "enable", "afterEnable", "afterEnable", "afterEnablePlugin")

EnableEmit(s) ==
  /\ At(s, "enable", "afterEnablePlugin")
  /\ LET c == Ev(calls[s], "emit:afterEnablePlugin", calls[s].name)
     IN Set(s, loadEnter(c, Settle(c, "ok")))
  /\ UNCHANGED <<store, tableExists, plugins, files, moduleCache, localPkgs, listening, conn, nreq, req>>
  /\ hist' = HistAfter(hist, calls[s], calls'[s])

-----------------------------------------------------------------------------
(* disable *)

\* disable without the check of builtIn
disableEnterUnprotected(reg, n, via) ==
  IF getPluginInstance(reg, n) # "ok" THEN Thrown("disable", n, via, "PluginNotFound")
  ELSE Capture(Pending("disable", n, via, "update"), Get(reg, n))

disableEnter(reg, n, via) ==
  IF getPluginInstance(reg, n) # "ok" THEN Thrown("disable", n, via, "PluginNotFound")
  ELSE IF Get(reg, n).builtIn THEN Thrown("disable", n, via, "BuiltInProtected")
  ELSE Capture(Pending("disable", n, via, "update"), Get(reg, n))

DisableStart(n) ==
  /\ Request("disable", n, <<disableEnter(plugins, n, "api")>>)
  /\ UNCHANGED <<store, tableExists, plugins, files, moduleCache, localPkgs, listening, conn, hist>>

DisableUpdate(s) ==
  /\ At(s, "disable", "update")
  /\ DbStep(s, RepoSetEnabledNotBuiltIn(store, calls[s].name, FALSE),
            Goto(Ev(calls[s], "db:update", calls[s].name), "afterDisable"))
  /\ UNCHANGED <<tableExists, plugins, files, moduleCache, localPkgs, listening, conn, nreq, req, hist>>

DisableAfterDisable(s) ==
  Hook(s, "disable", "afterDisable", "afterDisable", "afterDisablePlugin")

DisableEmit(s) ==
  Emit(s, "disable", "afterDisablePlugin", "emit:afterDisablePlugin", "done")

-----------------------------------------------------------------------------
(* remove *)

removeEnter(reg, n, via) ==
  IF getPluginInstance(reg, n) # "ok" THEN Thrown("remove", n, via, "PluginNotFound")
  ELSE IF Get(reg, n).builtIn THEN Thrown("remove", n, via, "BuiltInProtected")
  ELSE Capture(Pending("remove", n, via, "remove"), Get(reg, n))

RemoveStart(n) ==
  /\ Request("remove", n, <<removeEnter(plugins, n, "api")>>)
  /\ UNCHANGED <<store, tableExists, plugins, files, moduleCache, localPkgs, listening, conn, hist>>

RemoveHook(s) == Hook(s, "remove", "remove", "remove", "destroy")

\* an iterator at or past the deleted entry moves back with the entries behind
\* it: the entry it takes next is the one that followed its current entry
shiftIter(c, p) ==
  IF c.op \in {"loadAll", "beforeLoad", "install"} /\ Running(c) /\ p # 0 /\ c.i >= p
    THEN [c EXCEPT !.i = @ - 1] ELSE c

\* the record is destroyed, then the entry is deleted from this.plugins
RemoveDestroy(s) ==
  /\ At(s, "remove", "destroy")
  /\ LET c == calls[s]
         p == IndexOf(plugins, c.name, 1)
     IN IF tableExists
          THEN /\ store' = RepoDestroy(store, c.name)
               /\ plugins' = MapDelete(plugins, c.name)
               /\ calls' = [t \in Slots |->
                    IF t = s
                      THEN Goto(Ev(Ev(c, "db:destroy", c.name), "registry:delete", c.name),
                                "removePluginPackage")
                      ELSE shiftIter(calls[t], p)]
          ELSE /\ Set(s, Settle(c, "StoreError"))
               /\ UNCHANGED <<store, plugins>>
  /\ UNCHANGED <<tableExists, files, moduleCache, localPkgs, listening, conn, nreq, req, hist>>

\* removePluginPackage(name): the package files are deleted, or the deletion
\* fails and the call rejects, the record and the entry being gone already
RemovePackage(s) ==
  /\ At(s, "remove", "removePluginPackage")
  /\ \E ok \in BOOLEAN :
       IF ok
         THEN /\ files' = files \ {calls[s].name}
              /\ Set(s, Settle(Ev(calls[s], "pkg:remove", calls[s].name), "ok"))
         ELSE /\ files' = files
              /\ Set(s, Settle(calls[s], "PackageRemovalFailure"))
  /\ UNCHANGED <<store, tableExists, plugins, moduleCache, localPkgs, listening, conn, nreq, req, hist>>

-----------------------------------------------------------------------------
(* setDatabasePlugin and the add calls *)

\* setDatabasePlugin(pluginData) in call c: require throws when the package
\* is not found, and else leaves the module in the cache; setPluginInstance
\* throws for a package that does not export a class
setDatabasePlugin(s, c, en, bi) ==
  IF ~requireOk(files, moduleCache, c.name)
    THEN /\ UNCHANGED <<plugins, moduleCache>>
         /\ Set(s, Settle(c, "ModuleNotFound"))
  ELSE IF exportsClass(c.name)
    THEN /\ moduleCache' = moduleCache \cup {c.name}
         /\ plugins' = setPluginInstance(plugins, c.name, en, bi)
         /\ Set(s, Goto(Ev(c, "registry:set", c.name), "afterAdd"))
    ELSE /\ moduleCache' = moduleCache \cup {c.name}
         /\ plugins' = plugins
         /\ Set(s, Settle(c, "InvalidPluginExport"))

addByNpmEnter(reg, n, via) ==
  IF Has(reg, n) THEN Thrown("addByNpm", n, via, "DuplicatePlugin")
  ELSE [Pending("addByNpm", n, via, "create") EXCEPT !.d.builtIn = builtInOf(n)]

AddByNpmStart(n) ==
  /\ Request("addByNpm", n, <<addByNpmEnter(plugins, n, "api")>>)
  /\ UNCHANGED <<store, tableExists, plugins, files, moduleCache, localPkgs, listening, conn, hist>>

AddByNpmCreate(s) ==
  /\ At(s, "addByNpm", "create")
  /\ LET c == calls[s] IN
       IF ~tableExists THEN Set(s, Settle(c, "StoreError")) /\ store' = store
       ELSE IF ~CanCreate(store, c.name)
         THEN Set(s, Settle(c, "UniqueViolation")) /\ store' = store
       ELSE /\ store' = RepoCreate(store, Record(c.name, FALSE, FALSE, c.d.builtIn, "undefined"))
            /\ Set(s, Goto(Ev(c, "db:create", c.name), "addOrUpdatePluginByNpm"))
  /\ UNCHANGED <<tableExists, plugins, files, moduleCache, localPkgs, listening, conn, nreq, req, hist>>

\* addOrUpdatePluginByNpm({name, registry}): the package is downloaded, or it fails
AddByNpmDownload(s) ==
  /\ At(s, "addByNpm", "addOrUpdatePluginByNpm")
  /\ \E ok \in BOOLEAN :
       IF ok
         THEN /\ files' = files \cup {calls[s].name}
              /\ Set(s, Goto(Ev([calls[s] EXCEPT !.d.version = NpmLatest],
                                "pkg:download", calls[s].name), "update"))
         ELSE /\ files' = files
              /\ Set(s, Settle(calls[s], "PackageResolutionFailure"))
  /\ UNCHANGED <<store, tableExists, plugins, moduleCache, localPkgs, listening, conn, nreq, req, hist>>

AddByNpmUpdate(s) ==
  /\ At(s, "addByNpm", "update")
  /\ LET c == calls[s] IN
       IF ~tableExists
         THEN Set(s, Settle(c, "StoreError")) /\ UNCHANGED <<store, plugins, moduleCache>>
         ELSE /\ store' = RepoSetInstalled(store, c.name, c.d.version)
              /\ setDatabasePlugin(s, Ev(c, "db:update", c.name), FALSE, c.d.builtIn)
  /\ UNCHANGED <<tableExists, files, localPkgs, listening, conn, nreq, req, hist>>

AddOps == {"addByNpm", "addByLocalPath", "addByUpload", "addByCli"}

AddAfterAdd(s) == \E op \in AddOps : Hook(s, op, "afterAdd", "afterAdd", "done")

\* addByLocalPath without the check of this.plugins.has(name)
addByLocalPathEnterUnchecked(reg, c, bi) ==
  [c EXCEPT !.pc = "create", !.d.builtIn = bi, !.d.version = LocalVersion]

\* the synchronous prefix of addByLocalPath in call c
\* (data.builtIn is bi; addByCli passes no data, and builtIn defaults to false)
addByLocalPathEnter(reg, c, bi) ==
  IF Has(reg, c.name) THEN Settle(c, "DuplicatePlugin")
  ELSE [c EXCEPT !.pc = "create", !.d.builtIn = bi, !.d.version = LocalVersion]

AddByLocalPathStart(n) ==
  /\ Request("addByLocalPath", n, <<addByLocalPathEnter(plugins, Pending("addByLocalPath", n, "api", "create"),
                                       builtInOf(n))>>)
  /\ UNCHANGED <<store, tableExists, plugins, files, moduleCache, localPkgs, listening, conn, hist>>

LocalOps == {"addByLocalPath", "addByUpload", "addByCli"}

AddByLocalPathCreate(s) ==
  /\ \E op \in LocalOps : At(s, op, "create")
  /\ LET c == calls[s] IN
       IF ~tableExists
         THEN Set(s, Settle(c, "StoreError")) /\ UNCHANGED <<store, plugins, moduleCache>>
       ELSE IF ~CanCreate(store, c.name)
         THEN Set(s, Settle(c, "UniqueViolation")) /\ UNCHANGED <<store, plugins, moduleCache>>
       ELSE /\ store' = RepoCreate(store, Record(c.name, FALSE, TRUE, c.d.builtIn, c.d.version))
            /\ setDatabasePlugin(s, Ev(c, "db:create", c.name), FALSE, c.d.builtIn)
  /\ UNCHANGED <<tableExists, files, localPkgs, listening, conn, nreq, req, hist>>

AddByUploadStart(n) ==
  /\ Request("addByUpload", n, <<Pending("addByUpload", n, "api", "addOrUpdatePluginByZip")>>)
  /\ UNCHANGED <<store, tableExists, plugins, files, moduleCache, localPkgs, listening, conn, hist>>

\* addOrUpdatePluginByZip({zipUrl}) resolves, then addByLocalPath(packageDir) begins
AddByUploadUnzip(s) ==
  /\ At(s, "addByUpload", "addOrUpdatePluginByZip")
  /\ \E ok \in BOOLEAN :
       IF ok
         THEN /\ files' = files \cup {calls[s].name}
              /\ Set(s, addByLocalPathEnter(plugins, Ev(calls[s], "pkg:download", calls[s].name),
                                             builtInOf(calls[s].name)))
         ELSE /\ files' = files
              /\ Set(s, Settle(calls[s], "PackageResolutionFailure"))
  /\ UNCHANGED <<store, tableExists, plugins, moduleCache, localPkgs, listening, conn, nreq, req, hist>>

\* addByCli: the local package must exist; addByLocalPackage is awaited first
addByCliEnter(pkgs, n, via) ==
  IF n \notin pkgs THEN Thrown("addByCli", n, via, "LocalPackageMissing")
  ELSE Pending("addByCli", n, via, "addByLocalPackage")

AddByCliLink(s) ==
  /\ At(s, "addByCli", "addByLocalPackage")
  /\ files' = files \cup {calls[s].name}
  /\ Set(s, addByLocalPathEnter(plugins, Ev(calls[s], "pkg:link", calls[s].name), FALSE))
  /\ UNCHANGED <<store, tableExists, plugins, moduleCache, localPkgs, listening, conn, nreq, req, hist>>

\* createByCli: the generator writes the package directory, then yarn install runs
createByCliEnter(n, via) == Pending("createByCli", n, via, "generator")

\* generator.run() rejects when it cannot read or write the package directories
CreateGenerate(s) ==
  /\ At(s, "createByCli", "generator")
  /\ \E ok \in BOOLEAN :
       IF ok
         THEN /\ localPkgs' = localPkgs \cup {calls[s].name}
              /\ Set(s, Goto(Ev(calls[s], "fs:generate", calls[s].name), "yarnInstall"))
         ELSE /\ localPkgs' = localPkgs
              /\ Set(s, Settle(Ev(calls[s], "fs:generate", calls[s].name), "GeneratorError"))
  /\ UNCHANGED <<store, tableExists, plugins, files, moduleCache, listening, conn, nreq, req, hist>>

CreateYarnInstall(s) ==
  /\ At(s, "createByCli", "yarnInstall")
  /\ \E ok \in BOOLEAN :
       Set(s, IF ok THEN Settle(calls[s], "ok") ELSE Settle(calls[s], "CommandError"))
  /\ UNCHANGED <<store, tableExists, plugins, files, moduleCache, localPkgs, listening, conn, nreq, req, hist>>

-----------------------------------------------------------------------------
(* upgradeByNpm, upgradeByZip *)

\* getNewVersion(pluginData): the newer version of the registry, if there is one
getNewVersion(v) == IF v # NpmLatest THEN NpmLatest ELSE "undefined"

DataOf(r) == [enabled |-> r.enabled, builtIn |-> r.builtIn, version |-> r.version]

UpgradeByNpmStart(n) ==
  /\ Request("upgradeByNpm", n, <<Pending("upgradeByNpm", n, "api", "getPluginData")>>)
  /\ UNCHANGED <<store, tableExists, plugins, files, moduleCache, localPkgs, listening, conn, hist>>

\* getPluginData(name): findOne, and the throw when there is no record
UpgradeByNpmGet(s) ==
  /\ At(s, "upgradeByNpm", "getPluginData")
  /\ LET c == calls[s] IN
       IF ~tableExists THEN Set(s, Settle(c, "StoreError"))
       ELSE IF Find(store, c.name) = {} THEN Set(s, Settle(c, "PluginNotFound"))
       ELSE \E r \in Find(store, c.name) :
              Set(s, Goto([c EXCEPT !.d = DataOf(r)], "getNewVersion"))
  /\ UNCHANGED <<store, tableExists, plugins, files, moduleCache, localPkgs, listening, conn, nreq, req, hist>>

\* latestVersion is kept in d.version from here on
UpgradeByNpmNewVersion(s) ==
  /\ At(s, "upgradeByNpm", "getNewVersion")
  /\ LET c == [calls[s] EXCEPT !.d.version = getNewVersion(@)] IN
       Set(s, Goto(c, IF c.d.version # "undefined" THEN "addOrUpdatePluginByNpm" ELSE "update"))
  /\ UNCHANGED <<store, tableExists, plugins, files, moduleCache, localPkgs, listening, conn, nreq, req, hist>>

UpgradeByNpmDownload(s) ==
  /\ At(s, "upgradeByNpm", "addOrUpdatePluginByNpm")
  /\ \E ok \in BOOLEAN :
       IF ok
         THEN /\ files' = files \cup {calls[s].name}
              /\ Set(s, Goto(Ev(calls[s], "pkg:download", calls[s].name), "update"))
         ELSE /\ files' = files
              /\ Set(s, Settle(calls[s], "PackageResolutionFailure"))
  /\ UNCHANGED <<store, tableExists, plugins, moduleCache, localPkgs, listening, conn, nreq, req, hist>>

UpgradeByNpmUpdate(s) ==
  /\ At(s, "upgradeByNpm", "update")
  /\ LET c == calls[s] IN
       IF ~tableExists
         THEN Set(s, Settle(c, "StoreError")) /\ UNCHANGED <<store, plugins, moduleCache>>
         ELSE /\ store' = RepoSetVersion(store, c.name, c.d.version)
              /\ setDatabasePlugin(s, Ev(c, "db:update", c.name), c.d.enabled, c.d.builtIn)
  /\ UNCHANGED <<tableExists, files, localPkgs, listening, conn, nreq, req, hist>>

UpgradeByZipStart(n) ==
  /\ Request("upgradeByZip", n, <<Pending("upgradeByZip", n, "api", "addOrUpdatePluginByZip")>>)
  /\ UNCHANGED <<store, tableExists, plugins, files, moduleCache, localPkgs, listening, conn, hist>>

UpgradeByZipUnzip(s) ==
  /\ At(s, "upgradeByZip", "addOrUpdatePluginByZip")
  /\ \E ok \in BOOLEAN :
       IF ok
         THEN /\ files' = files \cup {calls[s].name}
              /\ Set(s, Goto(Ev([calls[s] EXCEPT !.d.version = NpmLatest],
                                "pkg:download", calls[s].name), "update"))
         ELSE /\ files' = files
              /\ Set(s, Settle(calls[s], "PackageResolutionFailure"))
  /\ UNCHANGED <<store, tableExists, plugins, moduleCache, localPkgs, listening, conn, nreq, req, hist>>

\* pluginData is what the update returns: nothing when no record matches, and
\* setDatabasePlugin then throws on reading its name
UpgradeByZipUpdate(s) ==
  /\ At(s, "upgradeByZip", "update")
  /\ LET c == calls[s] IN
       IF ~tableExists
         THEN Set(s, Settle(c, "StoreError")) /\ UNCHANGED <<store, plugins, moduleCache>>
       ELSE IF Find(store, c.name) = {}
         THEN Set(s, Settle(Ev(c, "db:update", c.name), "TypeError")) /\ UNCHANGED <<store, plugins, moduleCache>>
       ELSE /\ store' = RepoSetVersion(store, c.name, c.d.version)
            /\ \E r \in Find(store, c.name) :
                 setDatabasePlugin(s, Ev([c EXCEPT !.d.enabled = r.enabled,
                                                   !.d.builtIn = r.builtIn],
                                         "db:update", c.name),
                                   r.enabled, r.builtIn)
  /\ UNCHANGED <<tableExists, files, localPkgs, listening, conn, nreq, req, hist>>

UpgradeOps == {"upgradeByNpm", "upgradeByZip"}

\* afterAdd, then load (the hook alone) when pluginData.enabled
UpgradeAfterAdd(s) ==
  /\ \E op \in UpgradeOps : At(s, op, "afterAdd")
  /\ \E ok \in HookOutcomes(calls[s].name) :
       LET c == Ev(calls[s], "afterAdd", calls[s].name) IN
         Set(s, IF ~ok THEN Throw(calls[s], "afterAdd")
                ELSE IF c.d.enabled THEN Goto(c, "load")
                ELSE Settle(c, "ok"))
  /\ UNCHANGED <<store, tableExists, plugins, files, moduleCache, localPkgs, listening, conn, nreq, req, hist>>

UpgradeLoad(s) == \E op \in UpgradeOps : Hook(s, op, "load", "load", "done")

-----------------------------------------------------------------------------
(* install(options): the enabled instances, in the order of the Map *)

installFrom(c, reg, i) ==
  IF nextEnabled(reg, i) = 0 THEN Settle(c, "ok")
  ELSE [c EXCEPT !.i = nextEnabled(reg, i), !.name = reg[nextEnabled(reg, i)].name,
                 !.pc = "beforeInstallPlugin"]

InstallStart ==
  /\ Request("install", "", <<installFrom(Pending("install", "", "api", "beforeInstallPlugin"), plugins, 1)>>)
  /\ UNCHANGED <<store, tableExists, plugins, files, moduleCache, localPkgs, listening, conn, hist>>

InstallBefore(s) ==
  Emit(s, "install", "beforeInstallPlugin", "emit:beforeInstallPlugin", "install")

\* an install whose throw is swallowed: the pass goes on with the next instance
InstallHookSwallow(s) ==
  /\ At(s, "install", "install")
  /\ \E ok \in HookOutcomes(calls[s].name) :
       Set(s, Goto(IF ok THEN Ev(calls[s], "install", calls[s].name)
                   ELSE Ev(Ev(calls[s], "install", calls[s].name), "throw", calls[s].name),
                   "afterInstallPlugin"))
  /\ hist' = HistAfter(hist, calls[s], calls'[s])
  /\ UNCHANGED <<store, tableExists, plugins, files, moduleCache, localPkgs, listening, conn, nreq, req>>

InstallHook(s) == Hook(s, "install", "install", "install", "afterInstallPlugin")

InstallAfter(s) ==
  /\ At(s, "install", "afterInstallPlugin")
  /\ Set(s, installFrom(Ev(calls[s], "emit:afterInstallPlugin", calls[s].name),
                        plugins, calls[s].i + 1))
  /\ UNCHANGED <<store, tableExists, plugins, files, moduleCache, localPkgs, listening, conn, nreq, req, hist>>

-----------------------------------------------------------------------------
(* list() *)

NameOrder == <<"a", "b", "c">>

RECURSIVE rowsFrom(_, _)
\* repository.list(appName): the rows, in the order of NameOrder
rowsFrom(st, k) ==
  IF k > Len(NameOrder) THEN <<>>
  ELSE (IF Find(st, NameOrder[k]) = {} THEN <<>>
        ELSE <<CHOOSE r \in Find(st, NameOrder[k]) : TRUE>>) \o rowsFrom(st, k + 1)

RepoList(st) == rowsFrom(st, 1)

ListStart ==
  /\ Request("list", "", <<Pending("list", "", "api", "list")>>)
  /\ UNCHANGED <<store, tableExists, plugins, files, moduleCache, localPkgs, listening, conn, hist>>

\* repository.list resolves with the rows; getExtraPluginInfo is called for
\* each row and list waits for all of them
ListRows(s) ==
  /\ At(s, "list", "list")
  /\ Set(s, IF ~tableExists THEN Settle(calls[s], "StoreError")
            ELSE IF RepoList(store) = <<>> THEN Settle(calls[s], "ok")
            ELSE Goto([calls[s] EXCEPT !.list = RepoList(store)], "getExtraPluginInfo"))
  /\ UNCHANGED <<store, tableExists, plugins, files, moduleCache, localPkgs, listening, conn, nreq, req, hist>>

\* every getExtraPluginInfo has resolved: list returns the rows it read, each
\* with what getExtraPluginInfo adds to it; or one of them rejects and list
\* rejects with its error
ListExtra(s) ==
  /\ At(s, "list", "getExtraPluginInfo")
  /\ \E ok \in BOOLEAN :
       Set(s, Settle(calls[s], IF ok THEN "ok" ELSE "ExtraInfoError"))
  /\ UNCHANGED <<store, tableExists, plugins, files, moduleCache, localPkgs, listening, conn, nreq, req, hist>>

-----------------------------------------------------------------------------
(* The beforeLoad and beforeUpgrade handlers of the constructor *)

BootMethods == {"install", "upgrade", "start"}

\* a handler that synchronizes the table for install only
beforeLoadEnterInstallOnly(method, reload) ==
  [Pending("beforeLoad", "", "app",
           IF method = "install" THEN "sync" ELSE "collectionExistsInDb")
     EXCEPT !.arg = [method |-> method, reload |-> reload]]

beforeLoadEnter(method, reload) ==
  [Pending("beforeLoad", "", "app",
           IF method \in {"install", "upgrade"} THEN "sync" ELSE "collectionExistsInDb")
     EXCEPT !.arg = [method |-> method, reload |-> reload]]

BeforeLoadStart(method, reload) ==
  /\ RequestOf([NoReq EXCEPT !.kind = "beforeLoad", !.msg.method = method],
               <<beforeLoadEnter(method, reload)>>)
  /\ UNCHANGED <<store, tableExists, plugins, files, moduleCache, localPkgs, listening, conn, hist>>

\* this.collection.sync()
BeforeLoadSync(s) ==
  /\ At(s, "beforeLoad", "sync")
  /\ tableExists' = TRUE
  /\ Set(s, Goto(Ev(calls[s], "db:sync", ""), "collectionExistsInDb"))
  /\ UNCHANGED <<store, plugins, files, moduleCache, localPkgs, listening, conn, nreq, req, hist>>

\* the loop over this.plugins.values(): beforeLoad of entry i is called
beforeLoadFrom(c, reg, i) ==
  IF i > Len(reg) THEN Settle(c, "ok")
  ELSE [c EXCEPT !.i = i, !.name = reg[i].name, !.pc = "beforeLoad"]

\* collectionExistsInDb resolves; initDatabasePlugins is called and not awaited
BeforeLoadExists(s) ==
  /\ At(s, "beforeLoad", "collectionExistsInDb")
  /\ LET c == calls[s] IN
       IF ~tableExists THEN Set(s, Settle(Ev(c, "log:warn", ""), "ok"))
       ELSE IF c.arg.method # "install" \/ c.arg.reload
         THEN \E t \in Slots \ {s} :
                /\ ~Running(calls[t])
                /\ \A u \in Slots \ {s} : ~Running(calls[u]) => t <= u
                /\ calls' = [calls EXCEPT
                     ![s] = beforeLoadFrom(c, plugins, 1),
                     ![t] = Pending("initDatabasePlugins", "", "app", "list")]
       ELSE Set(s, Settle(c, "ok"))
  /\ UNCHANGED <<store, tableExists, plugins, files, moduleCache, localPkgs, listening, conn, nreq, req, hist>>

BeforeLoadHook(s) ==
  /\ At(s, "beforeLoad", "beforeLoad")
  /\ \E ok \in HookOutcomes(calls[s].name) :
       LET c == Ev(calls[s], "beforeLoad", calls[s].name) IN
         Set(s, IF ok THEN beforeLoadFrom(c, plugins, c.i + 1) ELSE Throw(calls[s], "beforeLoad"))
  /\ UNCHANGED <<store, tableExists, plugins, files, moduleCache, localPkgs, listening, conn, nreq, req, hist>>

\* the failure of setDatabasePlugin(row), if any, with the packages fs on
\* disk and the modules mc loaded: require does not find the package, or the
\* package exports no class
setDatabasePluginError(fs, mc, n) ==
  IF ~requireOk(fs, mc, n) THEN {"ModuleNotFound"}
  ELSE IF ~exportsClass(n) THEN {"InvalidPluginExport"}
  ELSE {}

\* the loop of initDatabasePlugins at row i: setDatabasePlugin(list[i]) is
\* called and not awaited, then checkPluginPackage is awaited; the result is
\* the call, the registry, the rejection of the promise of setDatabasePlugin,
\* which nothing handles, and the modules loaded
initFrom(c, reg, fs, mc, i) ==
  IF i > Len(c.list) THEN <<Settle(c, "ok"), reg, {}, mc>>
  ELSE LET n == c.list[i].name
           err == setDatabasePluginError(fs, mc, n)
       IN <<[(IF err = {} THEN Ev(c, "registry:set", n) ELSE c)
               EXCEPT !.i = i, !.name = n, !.pc = "checkPluginPackage"],
            IF err = {}
              THEN setPluginInstance(reg, n, c.list[i].enabled, c.list[i].builtIn)
              ELSE reg,
            err,
            IF requireOk(fs, mc, n) THEN mc \cup {n} ELSE mc>>

InitList(s) ==
  /\ At(s, "initDatabasePlugins", "list")
  /\ LET nx == initFrom([calls[s] EXCEPT !.list = RepoList(store)], plugins, files, moduleCache, 1)
     IN /\ Set(s, nx[1])
        /\ plugins' = nx[2]
        /\ hist' = [HistAfter(hist, calls[s], nx[1]) EXCEPT !.unhandled = @ \cup nx[3]]
        /\ moduleCache' = nx[4]
  /\ UNCHANGED <<store, tableExists, files, localPkgs, listening, conn, nreq, req>>

\* checkPluginPackage(list[i]) resolves and the loop goes on
InitCheck(s) ==
  /\ At(s, "initDatabasePlugins", "checkPluginPackage")
  /\ LET nx == initFrom(calls[s], plugins, files, moduleCache, calls[s].i + 1)
     IN /\ Set(s, nx[1])
        /\ plugins' = nx[2]
        /\ hist' = [HistAfter(hist, calls[s], nx[1]) EXCEPT !.unhandled = @ \cup nx[3]]
        /\ moduleCache' = nx[4]
  /\ UNCHANGED <<store, tableExists, files, localPkgs, listening, conn, nreq, req>>

\* app.on('beforeUpgrade'): this.collection.sync()
BeforeUpgrade ==
  /\ ~tableExists
  /\ tableExists' = TRUE
  /\ UNCHANGED <<store, plugins, files, moduleCache, localPkgs, calls, listening, conn, nreq, req, hist>>

-----------------------------------------------------------------------------
(* doCliCommand *)

CliMethods == {"create", "add", "enable", "disable", "remove"}

\* this[`${method}ByCli`](name), up to its first await
cliEnter(reg, pkgs, method, n, via) ==
  CASE method = "create" -> createByCliEnter(n, via)
    [] method = "add" -> addByCliEnter(pkgs, n, via)
    [] method = "enable" -> enableEnter(reg, n, via)
    [] method = "disable" -> disableEnter(reg, n, via)
    [] method = "remove" -> removeEnter(reg, n, via)

\* Array.isArray(name) ? name : [name]
pluginNames(p) == IF p.arr THEN p.list ELSE <<p.str>>

\* Promise.all(pluginNames.map(...)): every call is started, in the order of
\* the names; a method with no ...ByCli member throws before any is
doCliCommand(reg, pkgs, method, p, via) ==
  IF method \notin CliMethods THEN <<>>
  ELSE [k \in 1..Len(pluginNames(p)) |-> cliEnter(reg, pkgs, method, pluginNames(p)[k], via)]

-----------------------------------------------------------------------------
(* The control socket *)

\* JSON.stringify(data): the text of one message
JSONstringify(m) == <<"{", m.method, m.plugins, "}">>

\* JSON.parse(text): one whole message and nothing else, or a SyntaxError
JSONparse(text) ==
  IF Len(text) = 4 /\ text[1] = "{" /\ text[4] = "}"
    THEN [ok |-> TRUE, method |-> text[2], plugins |-> text[3]]
    ELSE [ok |-> FALSE, method |-> "", plugins |-> Str("")]

RECURSIVE Concat(_, _)
\* the bytes of the first k writes, as one 'data' event delivers them
Concat(wire, k) == IF k = 0 THEN <<>> ELSE Concat(wire, k - 1) \o wire[k]

NoConn ==
  [st |-> "none", owner |-> "", wire |-> <<>>, msg |-> NoMsg, local |-> 0, served |-> 0,
   echoed |-> 0, destroyed |-> FALSE]

\* the messages the calls are made with
Msgs ==
  {Msg(m, p) : m \in CliMethods, p \in {Str("a"), Arr(<<"b", "a">>)}}

\* listen(): the server listens on pmSock
Listen ==
  /\ ~listening
  /\ listening' = TRUE
  /\ UNCHANGED <<store, tableExists, plugins, files, moduleCache, localPkgs, calls, conn, nreq, req, hist>>

\* the slots of cs whose call is not running
FreeSlots(cs) == {s \in Slots : ~Running(cs[s])}

\* the calls new started next to the running calls of cs: they take the free
\* slots in order
PlaceFree(cs, new) ==
  [s \in Slots |->
     IF s \notin FreeSlots(cs) THEN cs[s]
     ELSE IF Cardinality({t \in FreeSlots(cs) : t <= s}) <= Len(new)
       THEN new[Cardinality({t \in FreeSlots(cs) : t <= s})]
     ELSE Idle]

\* no connection is being made or is open, and nothing written is unread,
\* unless the server socket is destroyed and what is unread is dropped
NoConnection ==
  /\ conn.st \notin {"connecting", "refused", "open"}
  /\ (conn.wire = <<>> \/ conn.destroyed)

\* client.connect(pmSock, ...) of a new socket: the attempt succeeds or fails
\* by whether the server listens, and its callback or its 'error' event comes
\* later; nothing is written and no command is started yet
Connecting(m) ==
  [NoConn EXCEPT !.st = IF listening THEN "connecting" ELSE "refused", !.owner = "pm", !.msg = m]

\* a clientWrite that sends create to the socket like the other methods
ClientWriteCreateSent(m) ==
  /\ NoConnection
  /\ RequestOf([NoReq EXCEPT !.kind = "clientWrite", !.msg = m], <<>>)
  /\ conn' = Connecting(m)
  /\ UNCHANGED <<store, tableExists, plugins, files, moduleCache, localPkgs, listening, hist>>

\* clientWrite(data)
ClientWrite(m) ==
  /\ IF m.method = "create"
       THEN /\ RequestOf([NoReq EXCEPT !.kind = "clientWrite", !.msg = m],
                         doCliCommand(plugins, localPkgs, m.method, m.plugins, "client"))
            /\ conn' = conn
       ELSE /\ NoConnection
            /\ RequestOf([NoReq EXCEPT !.kind = "clientWrite", !.msg = m], <<>>)
            /\ conn' = Connecting(m)
  /\ UNCHANGED <<store, tableExists, plugins, files, moduleCache, localPkgs, listening, hist>>

\* the connect callback of clientWrite: client.write(JSON.stringify(data)),
\* then client.end()
ClientConnect ==
  /\ conn.st = "connecting"
  /\ conn.owner = "pm"
  /\ conn' = [conn EXCEPT !.st = "open", !.wire = <<JSONstringify(conn.msg)>>]
  /\ UNCHANGED <<store, tableExists, plugins, files, moduleCache, localPkgs, calls, listening, nreq, req, hist>>

\* client.on('error'): the connect has failed, or the connected socket has an
\* error; the socket is destroyed and the command is run in the calling
\* process, whatever was written stays on its way to the server
ClientError ==
  /\ conn.owner = "pm"
  /\ conn.st \in {"refused", "open"}
  /\ LET cs == doCliCommand(plugins, localPkgs, conn.msg.method, conn.msg.plugins, "client")
     IN /\ Len(cs) <= Cardinality(FreeSlots(calls))
        /\ calls' = PlaceFree(calls, cs)
  /\ conn' = [conn EXCEPT !.st = IF @ = "refused" THEN "failed" ELSE "error", !.local = @ + 1]
  /\ req' = [NoReq EXCEPT !.kind = "clientError", !.msg = conn.msg]
  /\ UNCHANGED <<store, tableExists, plugins, files, moduleCache, localPkgs, listening, nreq, hist>>

\* another client process connects to pmSock
RawConnect ==
  /\ listening
  /\ NoConnection
  /\ conn' = [NoConn EXCEPT !.st = "open", !.owner = "raw"]
  /\ UNCHANGED <<store, tableExists, plugins, files, moduleCache, localPkgs, calls, listening, nreq, req, hist>>

\* and writes a message on its connection
RawWrite(m) ==
  /\ conn.st = "open"
  /\ conn.owner = "raw"
  /\ Len(conn.wire) < MaxWire
  /\ conn' = [conn EXCEPT !.wire = Append(@, JSONstringify(m))]
  /\ UNCHANGED <<store, tableExists, plugins, files, moduleCache, localPkgs, calls, listening, nreq, req, hist>>

\* the client socket is closed: that of clientWrite once the server has read
\* what it wrote and has ended its side, that of another client at any time;
\* what was written and is not read yet still reaches the server
ConnClose ==
  /\ conn.st = "open"
  /\ conn.owner = "pm" => conn.wire = <<>>
  /\ conn' = [conn EXCEPT !.st = "closed"]
  /\ UNCHANGED <<store, tableExists, plugins, files, moduleCache, localPkgs, calls, listening, nreq, req, hist>>

\* the 'data' handler whose JSON.parse threw: its promise is rejected with the
\* SyntaxError, and nothing awaits or catches the promise of the handler
SyntaxErrorCall == Settle(Pending("data", "", "server", "parse"), "SyntaxError")

\* the connection after the server has read a chunk of k writes; socket.pipe(socket)
\* writes the chunk back when the client socket is still there, and else the
\* write fails and the server socket is destroyed: it delivers no more data
AfterData(c, k, ok) ==
  [c EXCEPT !.wire = SubSeq(@, k + 1, Len(@)),
            !.served = IF ok THEN @ + 1 ELSE @,
            !.echoed = IF c.st = "open" THEN @ + k ELSE @,
            !.destroyed = c.st # "open"]

\* the errors a read chunk leaves with nothing to handle them: the rejection
\* of the handler whose JSON.parse threw, and the 'error' event of the server
\* socket when the echo is written to a client socket that is gone
DataErrors(c, ok) ==
  (IF ok THEN {} ELSE {"SyntaxError"}) \cup (IF c.st = "open" THEN {} ELSE {"EPIPE"})

\* socket.on('data') whatever the calls in flight: the handler of a chunk
\* starts its doCliCommand at once, next to the calls of the chunks before it
SocketData(k) ==
  /\ listening
  /\ ~conn.destroyed
  /\ k \in 1..Len(conn.wire)
  /\ nreq < MaxRequests
  /\ LET p == JSONparse(Concat(conn.wire, k))
         cs == IF p.ok
                 THEN LET ds == doCliCommand(plugins, localPkgs, p.method, p.plugins, "server")
                      IN [j \in 1..Len(ds) |-> [ds[j] EXCEPT !.dispatch = conn.served + 1]]
                 ELSE <<SyntaxErrorCall>>
     IN /\ Len(cs) <= Cardinality(FreeSlots(calls))
        /\ calls' = PlaceFree(calls, cs)
        /\ conn' = AfterData(conn, k, p.ok)
        /\ hist' = [hist EXCEPT !.unhandled = @ \cup DataErrors(conn, p.ok)]
  /\ nreq' = nreq + 1
  /\ req' = [NoReq EXCEPT !.kind = "data", !.chunk = k]
  /\ UNCHANGED <<store, tableExists, plugins, files, moduleCache, localPkgs, listening>>

\* an error that nothing handles ends the process, unless the process has
\* been started so as to go on: the server, the registry, the calls in
\* flight and the connection are gone with it; the table and the files stay
ProcessExit ==
  /\ hist.unhandled # {}
  /\ listening' = FALSE
  /\ plugins' = <<>>
  /\ calls' = [s \in Slots |-> Idle]
  /\ conn' = NoConn
  /\ hist' = [hist EXCEPT !.unhandled = {}, !.booted = FALSE]
  /\ moduleCache' = {}
  /\ UNCHANGED <<store, tableExists, files, localPkgs, nreq, req>>

\* a call of a method of the manager on plugin n made while other calls are
\* in flight
RequestInFlight(kind, n, c) ==
  /\ nreq < MaxRequests
  /\ FreeSlots(calls) # {}
  /\ nreq' = nreq + 1
  /\ req' = [NoReq EXCEPT !.kind = kind, !.name = n]
  /\ calls' = PlaceFree(calls, <<c>>)

AddByNpmCall(n) ==
  /\ RequestInFlight("addByNpm", n, addByNpmEnter(plugins, n, "api"))
  /\ UNCHANGED <<store, tableExists, plugins, files, moduleCache, localPkgs, listening, conn, hist>>

AddByLocalPathCall(n) ==
  /\ RequestInFlight("addByLocalPath", n,
                     addByLocalPathEnter(plugins, Pending("addByLocalPath", n, "api", "create"),
                                         builtInOf(n)))
  /\ UNCHANGED <<store, tableExists, plugins, files, moduleCache, localPkgs, listening, conn, hist>>

AddByUploadCall(n) ==
  /\ RequestInFlight("addByUpload", n, Pending("addByUpload", n, "api", "addOrUpdatePluginByZip"))
  /\ UNCHANGED <<store, tableExists, plugins, files, moduleCache, localPkgs, listening, conn, hist>>

-----------------------------------------------------------------------------
(* The specification *)

\* the key of the registry entry of a static plugin given without a name: the
\* class itself (name || PluginClass), which no plugin name is equal to
ClassB == "class B"

\* options.plugins of the constructor: none, or a named plugin [A, {name: "a",
\* enabled: true}] followed by a plugin given by its class alone
StaticPlugins ==
  {<<>>,
   <<[name |-> "a", enabled |-> TRUE, builtIn |-> FALSE],
     [name |-> ClassB, enabled |-> FALSE, builtIn |-> FALSE]>>}

RECURSIVE initStaticPlugins(_, _)
\* initStaticPlugins(plugins): setPluginInstance for each, in order
initStaticPlugins(reg, ps) ==
  IF ps = <<>> THEN reg
  ELSE initStaticPlugins(setPluginInstance(reg, Head(ps).name, Head(ps).enabled,
                                           Head(ps).builtIn),
                         Tail(ps))

\* the rows a previous run of the application has left in the table
InitStores ==
  {{}} \cup
  {{Record(n, n \in on, TRUE, builtInOf(n), LocalVersion) : n \in Names} : on \in SUBSET Names}

\* the tables a manager with static plugins is constructed on
StaticStores == {{}, {Record(n, TRUE, TRUE, builtInOf(n), LocalVersion) : n \in Names}}

\* the packages on disk: those of the records, and on an empty table none or
\* the packages a, b, c installed under node_modules with no record yet
InitFiles(st, reg) ==
  {{r.name : r \in st}} \cup (IF st = {} /\ reg = <<>> THEN {Names} ELSE {})

Init ==
  /\ store \in InitStores
  /\ tableExists \in {e \in BOOLEAN : store # {} => e}
  /\ plugins \in {initStaticPlugins(<<>>, ps) : ps \in StaticPlugins}
  /\ plugins # <<>> => store \in StaticStores
  /\ files \in InitFiles(store, plugins)
  /\ moduleCache = {}
  /\ localPkgs = {}
  /\ calls = [s \in Slots |-> Idle]
  /\ listening = FALSE
  /\ conn = NoConn
  /\ nreq = 0
  /\ req = NoReq
  /\ hist = [installRuns |-> [n \in Names |->
                 IF \E r \in store : r.name = n /\ r.enabled THEN "completed" ELSE "never"],
             disabled |-> {},
             booted |-> FALSE,
             unhandled |-> {}]

Step(s) ==
  \/ LoadBefore(s) \/ LoadHook(s) \/ LoadAfter(s)
  \/ EnableUpdate(s) \/ EnableInstall(s) \/ EnableAfterEnable(s) \/ EnableEmit(s)
  \/ DisableUpdate(s) \/ DisableAfterDisable(s) \/ DisableEmit(s)
  \/ RemoveHook(s) \/ RemoveDestroy(s) \/ RemovePackage(s)
  \/ AddByNpmCreate(s) \/ AddByNpmDownload(s) \/ AddByNpmUpdate(s) \/ AddAfterAdd(s)
  \/ AddByLocalPathCreate(s) \/ AddByUploadUnzip(s)
  \/ UpgradeByNpmGet(s) \/ UpgradeByNpmNewVersion(s) \/ UpgradeByNpmDownload(s)
  \/ UpgradeByNpmUpdate(s) \/ UpgradeByZipUnzip(s) \/ UpgradeByZipUpdate(s)
  \/ UpgradeAfterAdd(s) \/ UpgradeLoad(s)
  \/ InstallBefore(s) \/ InstallHook(s) \/ InstallAfter(s)
  \/ ListRows(s) \/ ListExtra(s)
  \/ BeforeLoadSync(s) \/ BeforeLoadExists(s) \/ BeforeLoadHook(s)
  \/ InitList(s) \/ InitCheck(s)

Call(n) ==
  \/ LoadStart(n) \/ EnableStart(n) \/ DisableStart(n) \/ RemoveStart(n)
  \/ AddByNpmStart(n) \/ AddByLocalPathStart(n) \/ AddByUploadStart(n)
  \/ UpgradeByNpmStart(n) \/ UpgradeByZipStart(n)

Next ==
  \/ \E s \in Slots : Step(s)
  \/ \E n \in Names : Call(n)
  \/ LoadAllStart \/ InstallStart \/ ListStart
  \/ \E method \in BootMethods, reload \in BOOLEAN : BeforeLoadStart(method, reload)
  \/ BeforeUpgrade

Spec == Init /\ [][Next]_vars

\* the manager driven through its control socket and clientWrite
CliStep(s) ==
  \/ EnableUpdate(s) \/ EnableInstall(s) \/ EnableAfterEnable(s) \/ EnableEmit(s)
  \/ LoadBefore(s) \/ LoadHook(s) \/ LoadAfter(s)
  \/ DisableUpdate(s) \/ DisableAfterDisable(s) \/ DisableEmit(s)
  \/ RemoveHook(s) \/ RemoveDestroy(s) \/ RemovePackage(s)
  \/ AddByCliLink(s) \/ AddByLocalPathCreate(s) \/ AddAfterAdd(s)
  \/ CreateGenerate(s) \/ CreateYarnInstall(s)
  \/ BeforeLoadExists(s) \/ BeforeLoadHook(s) \/ InitList(s) \/ InitCheck(s)

\* the control channel is checked from a manager constructed without static
\* plugins, on an empty table or on one that holds enabled records of a, b, c
InitChannel ==
  /\ Init
  /\ plugins = <<>>
  /\ store \in {{}, {Record(n, TRUE, TRUE, builtInOf(n), LocalVersion) : n \in Names}}
  /\ files = {r.name : r \in store}
  /\ tableExists

NextChannel ==
  \/ \E s \in Slots : CliStep(s)
  \/ BeforeLoadStart("start", FALSE)
  \/ Listen
  \/ \E m \in Msgs : ClientWrite(m)
  \/ ClientConnect
  \/ ClientError
  \/ ConnClose
  \/ \E k \in 1..MaxWire : SocketData(k)
  \/ ProcessExit

SpecChannel == InitChannel /\ [][NextChannel]_vars

\* the server reading its socket while the calls of earlier messages are in
\* flight: messages about plugin "a" and about "b" and "a"
ServerMsgs ==
  {Msg("enable", Str("a")), Msg("disable", Str("a")), Msg("remove", Arr(<<"b", "a">>))}

\* a client process connects when no call is in flight
ServerConnect == Quiet /\ RawConnect

ServerStep(s) ==
  \/ EnableUpdate(s) \/ EnableInstall(s) \/ EnableAfterEnable(s) \/ EnableEmit(s)
  \/ LoadBefore(s) \/ LoadHook(s) \/ LoadAfter(s)
  \/ DisableUpdate(s) \/ DisableAfterDisable(s) \/ DisableEmit(s)
  \/ RemoveHook(s) \/ RemoveDestroy(s) \/ RemovePackage(s)
  \/ BeforeLoadExists(s) \/ BeforeLoadHook(s) \/ InitList(s) \/ InitCheck(s)

NextServer ==
  \/ \E s \in Slots : ServerStep(s)
  \/ BeforeLoadStart("start", FALSE)
  \/ Listen
  \/ ServerConnect
  \/ \E m \in ServerMsgs : RawWrite(m)
  \/ ConnClose
  \/ \E k \in 1..MaxWire : SocketData(k)
  \/ ProcessExit

SpecServer == InitChannel /\ [][NextServer]_vars

\* add calls made in any order, also while earlier ones are in flight
AddStep(s) ==
  \/ AddByNpmCreate(s) \/ AddByNpmDownload(s) \/ AddByNpmUpdate(s) \/ AddAfterAdd(s)
  \/ AddByLocalPathCreate(s) \/ AddByUploadUnzip(s)

NextAdds ==
  \/ \E s \in Slots : AddStep(s)
  \/ \E n \in Names : AddByNpmCall(n) \/ AddByLocalPathCall(n) \/ AddByUploadCall(n)

SpecAdds == Init /\ [][NextAdds]_vars

-----------------------------------------------------------------------------
(* Properties *)

\* plugin n is enabled: its persisted record has enabled = true
RecordEnabled(n) == \E r \in Find(store, n) : r.enabled

RecordBuiltIn(n) == \E r \in Find(store, n) : r.builtIn

\* the state right after the request to call op on n was made
JustCalled(op, n) ==
  /\ req.kind = op
  /\ req.name = n
  /\ calls[1].op = op
  /\ calls[1].name = n
  /\ calls[1].trace = <<>>
  /\ calls[1].i = 0

\* this step is the request to call op on n
Calling(op, n) ==
  /\ nreq' # nreq
  /\ req'.kind = op
  /\ req'.name = n

EffectEvents ==
  {"db:create", "db:update", "db:destroy", "db:sync", "registry:set", "registry:delete",
   "pkg:download", "pkg:link", "pkg:remove", "fs:generate", "log:warn"}

IsHookEvent(e) == e[1] \notin EffectEvents

\* the plugin hooks and application events of a trace
HooksOf(tr) == SelectSeq(tr, IsHookEvent)

On(evs, n) == [k \in 1..Len(evs) |-> <<evs[k], n>>]

\* C1: for every registered plugin n, enable(n) fails with the
\* required-plugin-not-enabled error if and only if some name returned by
\* n.requiredPlugins() is not enabled when the call is made (a required name
\* with no instance and no record included).
C1_EnableFailsIffRequiredNotEnabled ==
  \A n \in Names :
    (JustCalled("enable", n) /\ Has(plugins, n)) =>
      ((calls[1].res = "RequiredPluginNotEnabled")
         <=> (\E k \in 1..Len(requiredPlugins(n)) : ~RecordEnabled(requiredPlugins(n)[k])))

\* C2: after enable(n) succeeds on a plugin whose instance was constructed with
\* enabled = false, the record of n is enabled, the instance of n is enabled,
\* and the call ran install, afterEnable, the afterEnablePlugin event, then
\* load between its beforeLoadPlugin and afterLoadPlugin events, once each.
C2_EnableSucceeded ==
  \A s \in Slots :
    (calls[s].op = "enable" /\ calls[s].res = "ok" /\ ~calls[s].d.enabled) =>
      /\ RecordEnabled(calls[s].name)
      /\ Has(plugins, calls[s].name)
      /\ PluginEnabled(Get(plugins, calls[s].name))
      /\ HooksOf(calls[s].trace) =
           On(<<"install", "afterEnable", "emit:afterEnablePlugin",
                "emit:beforeLoadPlugin", "load", "emit:afterLoadPlugin">>, calls[s].name)

\* C3 as stated: disable(n) and remove(n) on a plugin whose record has
\* builtIn = true fail with the built-in-protected error, in every state.
C3_BuiltInRecordProtected ==
  \A n \in Names : \A op \in {"disable", "remove"} :
    (JustCalled(op, n) /\ RecordBuiltIn(n)) => calls[1].res = "BuiltInProtected"

\* C3 (amended): disable(n) and remove(n) on a plugin whose record has
\* builtIn = true fail: with the built-in-protected error when n has an
\* instance in the registry, with the plugin-not-found error when it has none;
\* the failed call runs no hook, emits no event and leaves the record, the
\* registry and the package files as they were.
C3_BuiltInProtected ==
  [][\A n \in Names : \A op \in {"disable", "remove"} :
       (Calling(op, n) /\ RecordBuiltIn(n)) =>
         /\ calls'[1].op = op
         /\ calls'[1].res = (IF Has(plugins, n) THEN "BuiltInProtected" ELSE "PluginNotFound")
         /\ calls'[1].trace = <<>>
         /\ \A s \in Slots \ {1} : calls'[s] = Idle
         /\ UNCHANGED <<store, plugins, files>>]_vars

C3_Witness ==
  \E op \in {"disable", "remove"} :
    /\ JustCalled(op, "c")
    /\ RecordBuiltIn("c")
    /\ Has(plugins, "c")
    /\ calls[1].res = "BuiltInProtected"

\* this step is the check of the registry by a call of addByLocalPath or of
\* addByUpload (once its package is unpacked) for the package named n
C4_ChecksRegistry(s, n) ==
  \/ (s = 1 /\ Calling("addByLocalPath", n))
  \/ /\ At(s, "addByUpload", "addOrUpdatePluginByZip")
     /\ calls[s].name = n
     /\ calls'[s].pc # "addOrUpdatePluginByZip"
     /\ calls'[s].res # "PackageResolutionFailure"

\* C4: once addByLocalPath has succeeded for a package named x, x has an
\* instance and exactly one record; and an addByLocalPath or addByUpload of a
\* package named x made while x has its instance fails with the
\* duplicate-plugin error, creates no record, constructs no instance, calls
\* no afterAdd, and leaves the store as it was, with the one record of x.
C4_DuplicateAddRejected ==
  /\ [](\A s \in Slots :
          (calls[s].op = "addByLocalPath" /\ calls[s].res = "ok") =>
            (Has(plugins, calls[s].name) /\ Cardinality(Find(store, calls[s].name)) = 1))
  /\ [][\A s \in Slots : \A n \in Names :
          (Has(plugins, n) /\ C4_ChecksRegistry(s, n)) =>
            /\ calls'[s].res = "DuplicatePlugin"
            /\ HooksOf(calls'[s].trace) = <<>>
            /\ \A k \in 1..Len(calls'[s].trace) :
                 calls'[s].trace[k][1] \notin {"db:create", "registry:set"}
            /\ UNCHANGED <<store, plugins>>
            /\ Cardinality(Find(store', n)) <= 1]_vars

\* addByLocalPath of "a", whose package is installed, succeeded on an empty
\* store, and the next request, an addByLocalPath of "a" again, was rejected
C4_Witness ==
  /\ nreq = 2
  /\ JustCalled("addByLocalPath", "a")
  /\ calls[1].res = "DuplicatePlugin"
  /\ files = Names
  /\ moduleCache = {"a"}
  /\ store = {Record("a", FALSE, TRUE, FALSE, LocalVersion)}
  /\ plugins = <<Instance("a", FALSE, FALSE)>>

\* what the load of instance n issues when nothing throws
LoadEvents(n) == On(<<"emit:beforeLoadPlugin", "load", "emit:afterLoadPlugin">>, n)

RECURSIVE LoadedFrom(_, _)
\* what a pass over the registry from entry i on issues when nothing throws
LoadedFrom(reg, i) ==
  IF i > Len(reg) THEN <<>>
  ELSE (IF PluginEnabled(reg[i]) THEN LoadEvents(reg[i].name) ELSE <<>>) \o LoadedFrom(reg, i + 1)

IsPrefix(a, b) == Len(a) <= Len(b) /\ a = SubSeq(b, 1, Len(a))

Front(a) == SubSeq(a, 1, Len(a) - 1)

\* C5: what loadAll has issued is always a prefix of the loads of the enabled
\* instances taken one at a time in the order of the registry: all of them
\* when it succeeds; when the load of an instance throws, loadAll fails with
\* that error, the throwing load is the last thing it issued, and nothing is
\* issued for a later instance, then or afterwards.
C5_LoadAllSequentialAbort ==
  /\ [](\A s \in Slots : calls[s].op = "loadAll" =>
          LET tr == calls[s].trace
              full == LoadedFrom(plugins, 1)
          IN /\ calls[s].res \in {"running", "ok", "HookError"}
             /\ calls[s].res = "ok" => tr = full
             /\ calls[s].res = "running" => (IsPrefix(tr, full) /\ tr # full)
             /\ calls[s].res = "HookError" =>
                  /\ Len(tr) >= 3
                  /\ tr[Len(tr)] = <<"throw", calls[s].name>>
                  /\ tr[Len(tr) - 1] = <<"load", calls[s].name>>
                  /\ tr[Len(tr) - 2] = <<"emit:beforeLoadPlugin", calls[s].name>>
                  /\ IsPrefix(Front(tr), full))
  /\ [][\A s \in Slots :
          (calls[s].op = "loadAll" /\ ~Running(calls[s]) /\ nreq' = nreq) =>
            calls'[s] = calls[s]]_vars

\* a, b, c enabled and registered in that order; a was loaded, the load of b
\* threw, and loadAll failed without anything issued for c
C5_Witness ==
  /\ Len(plugins) = 3
  /\ \A k \in 1..3 : plugins[k].name = NameOrder[k] /\ PluginEnabled(plugins[k])
  /\ calls[1].op = "loadAll"
  /\ calls[1].res = "HookError"
  /\ calls[1].trace = LoadEvents("a") \o On(<<"emit:beforeLoadPlugin", "load", "throw">>, "b")

\* the rows of list() whose name is n
RowsOf(rows, n) == SelectSeq(rows, LAMBDA r : r.name = n)

\* C8: after addByNpm of x succeeds, the rows of the store as list() reads
\* them hold exactly one row named x, installed and not enabled; x has an
\* instance in the registry; and the call created the record, downloaded the
\* package, updated the record, constructed the instance and called afterAdd,
\* in this order.  A list() made next leaves the store as it is and returns
\* these rows.
C8_AddByNpmThenList ==
  /\ [](\A s \in Slots : (calls[s].op = "addByNpm" /\ calls[s].res = "ok") =>
          LET x == calls[s].name IN
            /\ Len(RowsOf(RepoList(store), x)) = 1
            /\ RowsOf(RepoList(store), x)[1].installed
            /\ ~RowsOf(RepoList(store), x)[1].enabled
            /\ Cardinality(Find(store, x)) = 1
            /\ Has(plugins, x)
            /\ calls[s].trace =
                 On(<<"db:create", "pkg:download", "db:update", "registry:set", "afterAdd">>, x))
  /\ [][(calls[1].op = "addByNpm" /\ calls[1].res = "ok" /\ Calling("list", "")) =>
            (UNCHANGED <<store, plugins>> /\ calls'[1].op = "list" /\ Running(calls'[1]))]_vars
  /\ [][\A s \in Slots :
          (calls[s].op = "list" /\ Running(calls[s]) /\ calls'[s].res = "ok") =>
            (calls'[s].list = RepoList(store) /\ UNCHANGED store)]_vars

\* addByNpm of "a" succeeded on an empty store and the list() made next has
\* returned the one row of "a", installed and not enabled
C8_Witness ==
  /\ nreq = 2
  /\ calls[1].op = "list"
  /\ calls[1].res = "ok"
  /\ calls[1].list = <<Record("a", FALSE, TRUE, FALSE, NpmLatest)>>
  /\ store = {Record("a", FALSE, TRUE, FALSE, NpmLatest)}
  /\ plugins = <<Instance("a", FALSE, FALSE)>>
  /\ files = {"a"}

\* C9: remove(n) of a registered plugin that is not built in calls the remove
\* hook, destroys the record, deletes the registry entry and removes the
\* package files, in this order; once it has succeeded n has no record, no
\* instance and no package files, and getPluginInstance(n), enable(n),
\* disable(n) and remove(n) fail with the plugin-not-found error; when the
\* remove hook throws, the record, the registry entry and the package files
\* are left as they were.
C9_RemoveOrderAndNotFound ==
  /\ [](\A s \in Slots : calls[s].op = "remove" =>
          LET n == calls[s].name
              tr == calls[s].trace
              steps == On(<<"remove", "db:destroy", "registry:delete", "pkg:remove">>, n)
          IN /\ Running(calls[s]) => (IsPrefix(tr, steps) /\ tr # steps)
             /\ calls[s].res = "ok" =>
                  /\ tr = steps
                  /\ Find(store, n) = {}
                  /\ ~Has(plugins, n)
                  /\ n \notin files
                  /\ getPluginInstance(plugins, n) = "PluginNotFound"
                  /\ enableEnter(plugins, n, "api").res = "PluginNotFound"
                  /\ disableEnter(plugins, n, "api").res = "PluginNotFound"
                  /\ removeEnter(plugins, n, "api").res = "PluginNotFound"
             /\ calls[s].res = "HookError" =>
                  /\ tr = On(<<"remove", "throw">>, n)
                  /\ Has(plugins, n)
                  /\ Find(store, n) # {})
  /\ [][\A s \in Slots :
          (At(s, "remove", "remove") /\ calls'[s].res = "HookError") =>
            UNCHANGED <<store, plugins, files>>]_vars
  /\ [][\A n \in Names : \A op \in {"enable", "disable", "remove"} :
          (calls[1].op = "remove" /\ calls[1].res = "ok" /\ calls[1].name = n /\ Calling(op, n)) =>
            (calls'[1].res = "PluginNotFound" /\ UNCHANGED <<store, plugins, files>>)]_vars

\* the three plugins were registered from their enabled records, remove("b")
\* has succeeded and the enable("b") made next was rejected
C9_Witness ==
  /\ JustCalled("enable", "b")
  /\ calls[1].res = "PluginNotFound"
  /\ store = {Record(n, TRUE, TRUE, builtInOf(n), LocalVersion) : n \in {"a", "c"}}
  /\ plugins = <<Instance("a", TRUE, FALSE), Instance("c", TRUE, TRUE)>>
  /\ files = {"a", "c"}

\* the method of the manager that runs for a method of a control message
CliOp(method) ==
  CASE method = "create" -> "createByCli"
    [] method = "add" -> "addByCli"
    [] OTHER -> method

\* the invocations of method on name nm that the first k writes on the wire ask for
Asked(wire, k, method, nm) ==
  {<<j, i>> \in (1..k) \X (1..Len(NameOrder)) :
     /\ wire[j][2] = method
     /\ i <= Len(pluginNames(wire[j][3]))
     /\ pluginNames(wire[j][3])[i] = nm}

\* the invocations of method on name nm that the server has started
Started(cs, method, nm) ==
  {s \in Slots : cs[s].op = CliOp(method) /\ cs[s].name = nm /\ cs[s].via = "server"}

\* C6: when the server reads what a client has written, every message
\* {method, plugins} read starts exactly one invocation of the method for each
\* name of the message, never none and never more.
C6_OneInvocationPerName ==
  [][(nreq' # nreq /\ req'.kind = "data") =>
       \A method \in CliMethods : \A nm \in Names :
         Cardinality(Started(calls', method, nm))
           = Cardinality(Asked(conn.wire, req'.chunk, method, nm))]_vars

\* C7: a clientWrite of a method other than create is never executed both by
\* the server and by the client, and once its connection has ended or failed
\* it has been executed by one of them; when the connection failed nothing
\* was sent.
C7_ExecutedInExactlyOnePlace ==
  conn.owner = "pm" =>
    /\ conn.local + conn.served <= 1
    /\ conn.st \in {"closed", "failed", "error"} => conn.local + conn.served = 1
    /\ conn.st = "failed" => (conn.served = 0 /\ conn.wire = <<>>)

\* C10: a clientWrite of create starts createByCli for each name in the
\* calling process and leaves the connection state as it was, whether or not
\* the server is listening; no connection of clientWrite carries a create
\* message, and createByCli is never run by the server for it.
C10_CreateAlwaysLocal ==
  /\ [][(nreq' # nreq /\ req'.kind = "clientWrite" /\ req'.msg.method = "create") =>
          /\ conn' = conn
          /\ calls' = Place([k \in 1..Len(pluginNames(req'.msg.plugins)) |->
                              createByCliEnter(pluginNames(req'.msg.plugins)[k], "client")])
          /\ UNCHANGED <<listening, store, plugins>>]_vars
  /\ [](/\ conn.owner = "pm" => conn.msg.method # "create"
        /\ \A j \in 1..Len(conn.wire) : conn.wire[j][2] # "create"
        /\ \A s \in Slots : calls[s].op = "createByCli" => calls[s].via = "client")

\* the server is listening, clientWrite of create for "a" was called, and
\* createByCli has run in the calling process with no connection made
C10_Witness ==
  /\ listening
  /\ req.kind = "clientWrite"
  /\ req.msg = Msg("create", Str("a"))
  /\ calls[1].op = "createByCli"
  /\ calls[1].name = "a"
  /\ calls[1].via = "client"
  /\ calls[1].res = "ok"
  /\ "a" \in localPkgs
  /\ conn = NoConn

\* event e on name n is in trace tr
InTrace(tr, e, n) == \E k \in 1..Len(tr) : tr[k] = <<e, n>>

\* the handler of call c populates the registry: the table was there and the
\* method is not a fresh install
Populates(c) ==
  /\ ~InTrace(c.trace, "log:warn", "")
  /\ (c.arg.method # "install" \/ c.arg.reload)

\* C11: when the beforeLoad handler has completed with the record table
\* present and a method that is not a fresh install, every record of the store
\* has an instance in the registry and beforeLoad() has been run on every
\* instance of the registry.
C11_BeforeLoadPopulatesRegistry ==
  \A s \in Slots :
    (calls[s].op = "beforeLoad" /\ calls[s].res = "ok" /\ Populates(calls[s])) =>
      /\ \A r \in store : Has(plugins, r.name)
      /\ \A k \in 1..Len(plugins) : InTrace(calls[s].trace, "beforeLoad", plugins[k].name)

\* C12: the beforeLoad handler synchronizes the table, first of all, if and
\* only if the method is install or upgrade; and when the table does not exist
\* or the method is install without reload it starts no initDatabasePlugins,
\* runs no beforeLoad() and leaves the registry as it was.
C12_BeforeLoadSyncAndSkip ==
  /\ [](\A s \in Slots : (calls[s].op = "beforeLoad" /\ calls[s].pc # "sync") =>
          /\ (calls[s].arg.method \in {"install", "upgrade"})
               <=> (calls[s].trace # <<>> /\ calls[s].trace[1] = <<"db:sync", "">>)
          /\ \A k \in 2..Len(calls[s].trace) : calls[s].trace[k][1] # "db:sync"
          /\ (~Running(calls[s]) /\ ~Populates(calls[s])) =>
               /\ calls[s].res = "ok"
               /\ HooksOf(calls[s].trace) = <<>>
               /\ \A t \in Slots : calls[t].op # "initDatabasePlugins")
  /\ [][\A s \in Slots :
          (/\ calls[s].op = "beforeLoad"
           /\ Running(calls[s])
           /\ \/ (calls[s].arg.method = "install" /\ ~calls[s].arg.reload)
              \/ (calls[s].pc = "collectionExistsInDb" /\ ~tableExists /\ calls'[s] # calls[s]))
          => (plugins' = plugins /\ store' = store)]_vars

\* a fresh install on a store that holds records: the table was synchronized,
\* the handler has completed, and the registry is still empty
C12_Witness ==
  /\ calls[1].op = "beforeLoad"
  /\ calls[1].res = "ok"
  /\ calls[1].arg = [method |-> "install", reload |-> FALSE]
  /\ calls[1].trace = <<<<"db:sync", "">>>>
  /\ Cardinality(store) = 3
  /\ plugins = <<>>

\* C13: an upgradeByNpm or upgradeByZip of a name that has no record fails, and
\* it does nothing before it fails: no package is resolved or downloaded, no
\* record is updated, no instance is constructed and no hook is called.
C13_UpgradeChecksRecordFirst ==
  \A s \in Slots :
    (calls[s].op \in UpgradeOps /\ Find(store, calls[s].name) = {}) =>
      /\ calls[s].trace = <<>>
      /\ calls[s].res # "ok"
      /\ ~Running(calls[s]) => calls[s].res \in {"PluginNotFound", "StoreError"}

\* C14: the dispatches of the messages of one connection are never in flight
\* together: the calls the server is running were all started by one message.
C14_OneDispatchPerConnection ==
  \A s, t \in Slots :
    (/\ Running(calls[s]) /\ calls[s].via = "server"
     /\ Running(calls[t]) /\ calls[t].via = "server")
    => calls[s].dispatch = calls[t].dispatch

\* the lifecycle transitions of a plugin
Transitions ==
  {"addByNpm", "addByLocalPath", "addByUpload", "addByCli", "upgradeByNpm", "upgradeByZip",
   "enable", "disable", "remove"}

\* C15: no two lifecycle transitions of the same plugin name are in progress
\* at the same time.
C15_NoInterleavingPerPlugin ==
  \A s, t \in Slots :
    (/\ s # t
     /\ Running(calls[s]) /\ calls[s].op \in Transitions
     /\ Running(calls[t]) /\ calls[t].op \in Transitions)
    => calls[s].name # calls[t].name

AddCalls == {"addByNpm", "addByLocalPath", "addByUpload"}

\* C19: the store never holds two records of one name, and of two add calls
\* for one name, in sequence or in flight together, only one issues a create
\* to the store: the other fails with the duplicate-plugin error.
C19_OneCreatePerName ==
  /\ \A n \in Names : Cardinality(Find(store, n)) <= 1
  /\ \A s, t \in Slots :
       (/\ s # t
        /\ calls[s].op \in AddCalls
        /\ calls[t].op \in AddCalls
        /\ calls[s].name = calls[t].name
        /\ InTrace(calls[s].trace, "db:create", calls[s].name))
       => /\ ~InTrace(calls[t].trace, "db:create", calls[t].name)
          /\ calls[t].res # "UniqueViolation"
          /\ ~Running(calls[t]) => calls[t].res = "DuplicatePlugin"

\* what enable(n) does, in order, when nothing fails
EnableSteps(n) ==
  On(<<"db:update", "install", "afterEnable", "emit:afterEnablePlugin",
       "emit:beforeLoadPlugin", "load", "emit:afterLoadPlugin">>, n)

\* C16: enable(n) stops at its first failing step and rolls nothing back: what
\* it has done is always a prefix of its steps, a throwing hook is the last
\* thing it called and its error is the result of the call; when install()
\* throws the record of n keeps enabled = true and afterEnable(), the
\* afterEnablePlugin event and load() are not called; when the check of the
\* required plugins fails nothing is updated and no hook is called.
C16_EnableAbortsWithoutRollback ==
  /\ [](\A s \in Slots : calls[s].op = "enable" =>
          LET n == calls[s].name
              tr == calls[s].trace
          IN /\ Running(calls[s]) => IsPrefix(tr, EnableSteps(n))
             /\ calls[s].res = "HookError" =>
                  /\ Len(tr) >= 3
                  /\ tr[Len(tr)] = <<"throw", n>>
                  /\ IsPrefix(Front(tr), EnableSteps(n))
                  /\ tr[Len(tr) - 1][1] \in {"install", "afterEnable", "load"}
             /\ (calls[s].res = "HookError" /\ InTrace(tr, "install", n)
                   /\ ~InTrace(tr, "afterEnable", n) /\ ~InTrace(tr, "load", n)) =>
                  /\ tr = On(<<"db:update", "install", "throw">>, n)
                  /\ RecordEnabled(n)
             /\ calls[s].res \in {"RequiredPluginNotEnabled", "TypeError", "PluginNotFound"} =>
                  tr = <<>>)
  /\ [][\A s \in Slots :
          (At(s, "enable", "install") /\ calls'[s].res = "HookError") =>
            (store' = store /\ plugins' = plugins)]_vars
  /\ [][\A n \in Names :
          (Calling("enable", n) /\ calls'[1].res \in {"RequiredPluginNotEnabled", "TypeError"}) =>
            UNCHANGED <<store, plugins, files, hist>>]_vars

\* install() of "b" threw in enable("b"): the call failed with that error
\* right after the update, and the record of "b" is enabled
C16_Witness ==
  /\ calls[1].op = "enable"
  /\ calls[1].name = "b"
  /\ calls[1].res = "HookError"
  /\ calls[1].trace = On(<<"db:update", "install", "throw">>, "b")
  /\ RecordEnabled("b")
  /\ hist.installRuns["b"] = "threw"

\* C17 as stated: when no call is in progress, a record with enabled = true
\* belongs to a plugin whose install() has completed at least once.
C17_EnabledImpliesInstalled ==
  Quiet => \A r \in store : r.enabled => hist.installRuns[r.name] = "completed"

\* C17 (amended): when no call is in progress, a record with enabled = true
\* belongs to a plugin whose install() has been called at least once; it has
\* completed, or it has thrown in an enable that left the record enabled.
C17_EnabledImpliesInstallCalled ==
  Quiet => \A r \in store : r.enabled => hist.installRuns[r.name] \in {"completed", "threw"}

\* no call is in progress, the record of "b" is enabled, and install() of "b"
\* has been called and has never completed
C17_Witness ==
  /\ Quiet
  /\ RecordEnabled("b")
  /\ hist.installRuns["b"] = "threw"
  /\ calls[1].op = "enable"
  /\ calls[1].res = "HookError"

\* C18: once initDatabasePlugins has run, whenever no call is in progress
\* every record has an instance under its name and every instance has a record.
C18_RecordsMatchInstances ==
  (hist.booted /\ Quiet) =>
    /\ \A r \in store : Has(plugins, r.name)
    /\ \A k \in 1..Len(plugins) : Find(store, plugins[k].name) # {}

\* C20: after disable(n) has succeeded the record of n has enabled = false and
\* the call ran afterDisable() then the afterDisablePlugin event; and as long
\* as no enable(n) has succeeded since, loadAll and install call no hook and
\* emit no event for n.
C20_DisabledIsNotLoaded ==
  /\ \A s \in Slots : (calls[s].op = "disable" /\ calls[s].res = "ok") =>
       /\ ~RecordEnabled(calls[s].name)
       /\ HooksOf(calls[s].trace) = On(<<"afterDisable", "emit:afterDisablePlugin">>, calls[s].name)
  /\ \A s \in Slots : calls[s].op \in {"loadAll", "install"} =>
       \A k \in 1..Len(calls[s].trace) : calls[s].trace[k][2] \notin hist.disabled

\* C21: the update of upgradeByNpm(n) leaves the record of n with the newer
\* version when getNewVersion found one, and otherwise with the version the
\* record had before the call; the version is never replaced by an empty value.
C21_UpgradeKeepsOrRaisesVersion ==
  [][\A s \in Slots :
       (At(s, "upgradeByNpm", "update") /\ tableExists) =>
         \A r \in Find(store, calls[s].name) :
           \A r2 \in Find(store', calls[s].name) :
             /\ r2.version # "undefined"
             /\ r2.version = IF getNewVersion(r.version) # "undefined"
                               THEN getNewVersion(r.version)
                               ELSE r.version]_vars

\* what the bulk install issues for instance n when nothing throws
InstallEvents(n) ==
  On(<<"emit:beforeInstallPlugin", "install", "emit:afterInstallPlugin">>, n)

RECURSIVE InstalledFrom(_, _)
\* what a bulk install over the registry from entry i on issues when nothing throws
InstalledFrom(reg, i) ==
  IF i > Len(reg) THEN <<>>
  ELSE (IF PluginEnabled(reg[i]) THEN InstallEvents(reg[i].name) ELSE <<>>)
         \o InstalledFrom(reg, i + 1)

\* C22: what a bulk install has issued is always a prefix of
\* beforeInstallPlugin, install(), afterInstallPlugin for the enabled instances
\* taken one at a time in the order of the registry, with nothing for an
\* instance that is not enabled: all of it when the call succeeds; when the
\* install() of an instance throws the call fails with that error, the
\* throwing install() is the last thing issued, and nothing is issued for a
\* later instance.
C22_BulkInstallSequentialAbort ==
  \A s \in Slots : calls[s].op = "install" =>
    LET tr == calls[s].trace
        full == InstalledFrom(plugins, 1)
    IN /\ calls[s].res \in {"running", "ok", "HookError"}
       /\ calls[s].res = "ok" => tr = full
       /\ calls[s].res = "running" => (IsPrefix(tr, full) /\ tr # full)
       /\ calls[s].res = "HookError" =>
            /\ Len(tr) >= 3
            /\ tr[Len(tr)] = <<"throw", calls[s].name>>
            /\ tr[Len(tr) - 1] = <<"install", calls[s].name>>
            /\ tr[Len(tr) - 2] = <<"emit:beforeInstallPlugin", calls[s].name>>
            /\ IsPrefix(Front(tr), full)

\* a, b, c enabled and registered in that order; a was installed, install()
\* of b threw, and the bulk install failed with nothing issued for c
C22_Witness ==
  /\ Len(plugins) = 3
  /\ \A k \in 1..3 : plugins[k].name = NameOrder[k] /\ PluginEnabled(plugins[k])
  /\ calls[1].op = "install"
  /\ calls[1].res = "HookError"
  /\ calls[1].trace =
       InstallEvents("a") \o On(<<"emit:beforeInstallPlugin", "install", "throw">>, "b")

\* C23: a chunk the server reads never leaves a failure of its handler with
\* nothing to handle it (whatever the chunk holds, the failure is caught in
\* the handler and logged), and the server never stops listening because of
\* such a failure.
C23_FailuresCaughtAtSocket ==
  [][/\ (nreq' # nreq /\ req'.kind = "data") => "SyntaxError" \notin hist'.unhandled
     /\ (listening /\ ~listening') => "SyntaxError" \notin hist.unhandled]_vars

\* the calls that add or upgrade a plugin
AddUpgradeCalls == {"addByNpm", "addByLocalPath", "addByUpload", "upgradeByNpm", "upgradeByZip"}

\* the other calls the registry must not change under
KeepRegistryCalls == {"enable", "disable", "load", "loadAll", "install"}

\* C24, as stated: a remove(n) that has deleted the entry of n from the
\* registry succeeds.
C24_OnlySuccessfulRemoveDeletes ==
  \A s \in Slots :
    (calls[s].op = "remove" /\ InTrace(calls[s].trace, "registry:delete", calls[s].name)) =>
      calls[s].res \in {"running", "ok"}

\* C24, amended: an entry leaves the registry only in the step of a remove(n)
\* that deletes the entry of n, after the remove hook of n has returned and
\* the record of n has been destroyed; that remove then succeeds, or it fails
\* in the deletion of the package files alone, the entry staying deleted; a
\* step of an add or an upgrade of n leaves every entry of another name as and
\* where it was and never takes the entry of n away; a step of enable,
\* disable, load, loadAll or bulk install leaves the registry unchanged,
\* whether the call succeeds or fails.
C24_OnlyRemoveDeletes ==
  /\ [](\A s \in Slots :
          (calls[s].op = "remove" /\ InTrace(calls[s].trace, "registry:delete", calls[s].name)) =>
            /\ calls[s].res \in {"running", "ok", "PackageRemovalFailure"}
            /\ InTrace(calls[s].trace, "remove", calls[s].name)
            /\ InTrace(calls[s].trace, "db:destroy", calls[s].name)
            /\ ~Has(plugins, calls[s].name)
            /\ calls[s].res = "PackageRemovalFailure" =>
                 ~InTrace(calls[s].trace, "pkg:remove", calls[s].name))
  /\ [][\A k \in 1..Len(plugins) :
          ~Has(plugins', plugins[k].name) =>
            /\ \E s \in Slots : /\ At(s, "remove", "destroy")
                                 /\ calls[s].name = plugins[k].name
                                 /\ calls'[s].pc = "removePluginPackage"
            /\ plugins' = MapDelete(plugins, plugins[k].name)]_vars
  /\ [][\A s \in Slots :
          (Running(calls[s]) /\ calls'[s] # calls[s] /\ nreq' = nreq) =>
            /\ calls[s].op \in AddUpgradeCalls =>
                 /\ Has(plugins, calls[s].name) => Has(plugins', calls[s].name)
                 /\ \A k \in 1..Len(plugins) :
                      plugins[k].name # calls[s].name =>
                        (k <= Len(plugins') /\ plugins'[k] = plugins[k])
                 /\ \A k \in 1..Len(plugins') :
                      (k > Len(plugins) \/ plugins'[k] # plugins[k]) =>
                        plugins'[k].name = calls[s].name
            /\ calls[s].op \in KeepRegistryCalls => plugins' = plugins]_vars

\* remove("a") has deleted the entry of "a" with "b" registered and has then
\* failed in the deletion of the package files: the entry of "a" is gone, its
\* files and the entry of "b" are still there
C24_Witness ==
  /\ calls[1].op = "remove"
  /\ calls[1].name = "a"
  /\ calls[1].res = "PackageRemovalFailure"
  /\ ~Has(plugins, "a")
  /\ "a" \in files
  /\ Has(plugins, "b")

====
